---- MODULE Spec2Model ----
(***************************************************************************)
(* Model of the MRT parser: the bogus-ASN predicate and origin-AS scan of  *)
(* processor.rs, the attribute and AS-PATH decoders of bgp.rs and the      *)
(* record reader of lib.rs.                                                *)
(*                                                                         *)
(* Byte buffers are sequences of naturals in 0..255, a cursor is a 0-based *)
(* position into such a sequence.  A call ends in one of three outcomes:   *)
(* Ok(value), Err(message) (a returned io::Error / Box<dyn Error>) or      *)
(* Panic(message) (the thread unwinds, nothing is returned).               *)
(* debug_assertions is the build profile: debug_assert! and the integer    *)
(* overflow checks are active exactly when it is TRUE.                     *)
(* The explored buffers keep every 32-bit field below 2^31, the range of   *)
(* the model checker's integers.                                           *)
(***************************************************************************)
EXTENDS Integers, Sequences, FiniteSets, TLC

VARIABLES
    debug_assertions,   \* cfg(debug_assertions) of the build
    pc,                 \* position of the caller: "call" before, "done" after
    asn,                \* argument of is_asn_bogus
    bogus,              \* its return value
    data,               \* a byte buffer: AttributeAsPath.data or the attribute blob
    is_asn_32bit,       \* the width argument
    segments,           \* return of get_path_segments, per width
    origin,             \* return of get_origin_as_from_bgp_attribute_as_path
    attributes,         \* return of Attribute::parse_all
    record,             \* a decoded RibEntry or Afi
    origins,            \* return of get_origin_as_from_rib_entry / get_origin_as_from_afi
    reader,             \* the bytes behind Parser.reader
    position,           \* how many of them Parser.reader has consumed
    header,             \* the MrtHeader the last read_header returned
    payload_start,      \* position when that read_header returned
    decoder,            \* what the caller did with the header: "skip" or the message type M
    message             \* return of the last skip_message / read_message

vars == <<debug_assertions, pc, asn, bogus, data, is_asn_32bit, segments, origin,
          attributes, record, origins,
          reader, position, header, payload_start, decoder, message>>

pure_vars == <<asn, bogus, data, is_asn_32bit, segments, origin, attributes, record, origins>>
parser_vars == <<reader, position, header, payload_start, decoder, message>>

----------------------------------------------------------------------------
(* Outcomes *)

Ok(v) == [tag |-> "Ok", val |-> v, err |-> ""]
Err(e) == [tag |-> "Err", val |-> <<>>, err |-> e]
Panic(m) == [tag |-> "Panic", val |-> <<>>, err |-> m]
NotCalled == [tag |-> "NotCalled", val |-> <<>>, err |-> ""]

----------------------------------------------------------------------------
(* Bounds of the explored inputs *)

AsnSpread == 8      \* is_asn_bogus is applied this far around each threshold
MaxSegments == 3    \* segments of an enumerated AS-PATH
MaxValues == 2      \* ASNs of an enumerated segment
MaxSequenceLen == 3 \* ASNs of an enumerated single-segment AS-PATH
MaxRawLen == 6      \* bytes of an enumerated raw AS-PATH buffer
MaxAttrLen == 5     \* bytes of an enumerated raw attribute buffer
MaxAttrs == 2       \* attributes of an enumerated attribute blob
MaxSubEntries == 2  \* sub-entries of an enumerated RibEntry
MaxRecords == 2     \* MRT records of an enumerated stream

----------------------------------------------------------------------------
(* byteorder / Cursor reads: [ok, v, p] = success, value, position after *)

\* F applied to the values of buf and p, each evaluated once
At(buf, p, F(_, _)) == CHOOSE out \in {F(b, q) : b \in {buf}, q \in {p}} : TRUE

\* F applied to the value of e, evaluated once: let x = e
Let(e, F(_)) == CHOOSE out \in {F(x) : x \in {e}} : TRUE

read_u8(buf, p) ==
    At(buf, p, LAMBDA b, q :
        IF q + 1 <= Len(b)
        THEN [ok |-> TRUE, v |-> b[q + 1], p |-> q + 1]
        ELSE [ok |-> FALSE, v |-> 0, p |-> q])

read_u16(buf, p) ==
    At(buf, p, LAMBDA b, q :
        IF q + 2 <= Len(b)
        THEN [ok |-> TRUE, v |-> b[q + 1] * 256 + b[q + 2], p |-> q + 2]
        ELSE [ok |-> FALSE, v |-> 0, p |-> q])

read_u32(buf, p) ==
    At(buf, p, LAMBDA b, q :
        IF q + 4 <= Len(b)
        THEN [ok |-> TRUE,
              v |-> b[q + 1] * 16777216 + b[q + 2] * 65536 + b[q + 3] * 256 + b[q + 4],
              p |-> q + 4]
        ELSE [ok |-> FALSE, v |-> 0, p |-> q])

read_exact(buf, p, length) ==
    At(buf, p, LAMBDA b, q :
        IF q + length <= Len(b)
        THEN [ok |-> TRUE, v |-> SubSeq(b, q + 1, q + length), p |-> q + length]
        ELSE [ok |-> FALSE, v |-> <<>>, p |-> q])

----------------------------------------------------------------------------
(* processor.rs: is_asn_bogus *)

is_asn_bogus_off_by_one(input) ==
    input = 0 \/ (input > 64496 /\ input <= 131071) \/ input > 1000000

is_asn_bogus_lost_zero(input) ==
    input = 0 \/ (input >= 64496 /\ input <= 131071) \/ input > 100000

is_asn_bogus(input) ==
    input = 0 \/ (input >= 64496 /\ input <= 131071) \/ input > 1000000

----------------------------------------------------------------------------
(* bgp.rs: PathSegment::parse and AttributeAsPath::get_path_segments *)

PathSegmentType(n) ==
    CASE n = 1 -> "AsSet"
      [] n = 2 -> "AsSequence"
      [] n = 3 -> "AsConfedSequence"
      [] n = 4 -> "AsConfedSet"
      [] OTHER -> "Unknown(" \o ToString(n) \o ")"

read_asn_always_u32(buf, p, is32) ==
    read_u32(buf, p)

read_asn(buf, p, is32) ==
    IF is32 THEN read_u32(buf, p) ELSE read_u16(buf, p)

RECURSIVE read_values(_, _, _, _, _)
read_values(buf, p, count, is32, values) ==
    IF count = 0
    THEN [ok |-> TRUE, v |-> values, p |-> p]
    ELSE Let(read_asn(buf, p, is32), LAMBDA r :
             IF ~r.ok
             THEN [ok |-> FALSE, v |-> <<>>, p |-> p]
             ELSE read_values(buf, r.p, count - 1, is32, Append(values, r.v)))

PathSegment_parse(buf, p, is32) ==
    LET t == read_u8(buf, p)
        c == read_u8(buf, t.p)
        vs == read_values(buf, c.p, c.v, is32, <<>>)
        none == [ok |-> FALSE, v |-> [typ |-> "", values |-> <<>>], p |-> p]
    IN  IF ~t.ok THEN none
        ELSE IF ~c.ok THEN none
        ELSE IF ~vs.ok THEN none
        ELSE [ok |-> TRUE, v |-> [typ |-> PathSegmentType(t.v), values |-> vs.v], p |-> vs.p]

RECURSIVE path_segments_loop(_, _, _, _)
path_segments_loop(buf, p, is32, output) ==
    IF ~(p < Len(buf))
    THEN Ok(output)
    ELSE Let(PathSegment_parse(buf, p, is32), LAMBDA r :
             IF ~r.ok
             THEN Err("UnexpectedEof")
             ELSE path_segments_loop(buf, r.p, is32, Append(output, r.v)))

get_path_segments(buf, is32) == path_segments_loop(buf, 0, is32, <<>>)

----------------------------------------------------------------------------
(* processor.rs: get_origin_as_from_bgp_attribute_as_path *)

\* for value in path_segment.values.iter().rev(): index of the first
\* non-bogus value met, 0 when the loop ends without one
RECURSIVE rev_find_non_bogus(_, _)
rev_find_non_bogus(values, j) ==
    IF j = 0 THEN 0
    ELSE IF ~is_asn_bogus(values[j]) THEN j
    ELSE rev_find_non_bogus(values, j - 1)

\* for path_segment in path_segments.iter().rev(), from segment i down
RECURSIVE scan_segments(_, _)
scan_segments(path_segments, i) ==
    IF i = 0
    THEN Err("No origin")
    ELSE LET path_segment == path_segments[i]
             j == rev_find_non_bogus(path_segment.values, Len(path_segment.values))
         IN  CASE path_segment.typ = "AsSequence" ->
                    IF j > 0
                    THEN Ok(<<path_segment.values[j]>>)
                    ELSE scan_segments(path_segments, i - 1)
               [] path_segment.typ = "AsSet" ->
                    Ok(SelectSeq(path_segment.values, LAMBDA val : ~is_asn_bogus(val)))
               [] OTHER ->
                    Err("Invalid/Legacy BGP Path Segment: " \o path_segment.typ)

get_origin_as_from_bgp_attribute_as_path(path, is32, dbg) ==
    Let(get_path_segments(path, is32), LAMBDA r :
        IF r.tag = "Err" THEN r
        ELSE IF dbg /\ Len(r.val) = 0
             THEN Panic("index out of bounds: the len is 0 but the index is 0")
        ELSE IF dbg /\ r.val[1].typ # "AsSequence"
             THEN Panic("assertion failed: path_segments[0].typ == PathSegmentType::AsSequence")
        ELSE scan_segments(r.val, Len(r.val)))

----------------------------------------------------------------------------
(* bgp.rs: Attribute::parse and Attribute::parse_all *)

AttributeOrigin_from(value) ==
    CASE value = 0 -> "Igp"
      [] value = 1 -> "Egp"
      [] value = 2 -> "Incomplete"
      [] OTHER -> "Unknown(" \o ToString(value) \o ")"

Attribute_Origin(o) == [kind |-> "Origin", origin |-> o, data |-> <<>>, type_id |-> 1]
Attribute_AsPath(d) == [kind |-> "AsPath", origin |-> "", data |-> d, type_id |-> 2]
Attribute_Unknown(t) == [kind |-> "Unknown", origin |-> "", data |-> <<>>, type_id |-> t]

\* [tag, v, p]: "Ok" with the attribute and the position after it, "Err" for
\* a short read, "Panic" for data[0] on empty data
Attribute_parse(buf, p) ==
    LET flags == read_u8(buf, p)
        has_extra_length == (flags.v \div 16) % 2 = 1
        type_id == read_u8(buf, flags.p)
        length == IF has_extra_length THEN read_u16(buf, type_id.p) ELSE read_u8(buf, type_id.p)
        d == read_exact(buf, length.p, length.v)
        fail(t) == [tag |-> t, v |-> Attribute_Unknown(0), p |-> p]
    IN  IF ~flags.ok THEN fail("Err")
        ELSE IF ~type_id.ok THEN fail("Err")
        ELSE IF ~length.ok THEN fail("Err")
        ELSE IF ~d.ok THEN fail("Err")
        ELSE CASE type_id.v = 1 ->
                    IF Len(d.v) = 0
                    THEN fail("Panic")
                    ELSE [tag |-> "Ok", v |-> Attribute_Origin(AttributeOrigin_from(d.v[1])), p |-> d.p]
               [] type_id.v = 2 -> [tag |-> "Ok", v |-> Attribute_AsPath(d.v), p |-> d.p]
               [] OTHER -> [tag |-> "Ok", v |-> Attribute_Unknown(type_id.v), p |-> d.p]

RECURSIVE parse_all_loop(_, _, _)
parse_all_loop(input, p, output) ==
    IF ~(p < Len(input))
    THEN Ok(output)
    ELSE Let(Attribute_parse(input, p), LAMBDA r :
             CASE r.tag = "Err" -> Err("UnexpectedEof")
               [] r.tag = "Panic" -> Panic("index out of bounds: the len is 0 but the index is 0")
               [] OTHER -> parse_all_loop(input, r.p, Append(output, r.v)))

Attribute_parse_all(input) == parse_all_loop(input, 0, <<>>)

----------------------------------------------------------------------------
(* processor.rs: get_origin_as_from_rib_entry and get_origin_as_from_afi *)

RECURSIVE insert_sorted(_, _)
insert_sorted(sorted, x) ==
    IF sorted = <<>> THEN <<x>>
    ELSE IF x <= Head(sorted) THEN <<x>> \o sorted
    ELSE <<Head(sorted)>> \o insert_sorted(Tail(sorted), x)

RECURSIVE sort_unstable(_)
sort_unstable(output) ==
    IF output = <<>> THEN <<>>
    ELSE Let(sort_unstable(Tail(output)), LAMBDA sorted : insert_sorted(sorted, Head(output)))

\* Vec::dedup: removes consecutive repeated elements
RECURSIVE dedup(_)
dedup(output) ==
    IF Len(output) <= 1 THEN output
    ELSE IF output[1] = output[2] THEN dedup(Tail(output))
    ELSE <<output[1]>> \o dedup(Tail(output))

sort_and_dedup(output) == dedup(sort_unstable(output))

\* for attribute in attrs: append the origins of every AsPath attribute
RECURSIVE attributes_loop(_, _, _, _, _)
attributes_loop(attrs, k, output, is32, dbg) ==
    IF k > Len(attrs)
    THEN Ok(output)
    ELSE IF attrs[k].kind = "AsPath"
         THEN Let(get_origin_as_from_bgp_attribute_as_path(attrs[k].data, is32, dbg), LAMBDA r :
                  IF r.tag # "Ok" THEN r
                  ELSE attributes_loop(attrs, k + 1, output \o r.val, is32, dbg))
         ELSE attributes_loop(attrs, k + 1, output, is32, dbg)

\* for sub_entry in &input.sub_entries
RECURSIVE sub_entries_loop(_, _, _, _)
sub_entries_loop(sub_entries, i, output, dbg) ==
    IF i > Len(sub_entries)
    THEN Ok(output)
    ELSE Let(Attribute_parse_all(sub_entries[i].data), LAMBDA attrs :
             IF attrs.tag # "Ok" THEN attrs
             ELSE Let(attributes_loop(attrs.val, 1, output, TRUE, dbg), LAMBDA r :
                      IF r.tag # "Ok" THEN r
                      ELSE sub_entries_loop(sub_entries, i + 1, r.val, dbg)))

get_origin_as_from_rib_entry(input, dbg) ==
    Let(sub_entries_loop(input.sub_entries, 1, <<>>, dbg), LAMBDA r :
        IF r.tag # "Ok" THEN r ELSE Ok(sort_and_dedup(r.val)))

get_origin_as_from_afi(afi, dbg) ==
    Let(Attribute_parse_all(afi.data), LAMBDA attrs :
        IF attrs.tag # "Ok" THEN attrs
        ELSE Let(attributes_loop(attrs.val, 1, <<>>, FALSE, dbg), LAMBDA r :
                 IF r.tag # "Ok" THEN r
                 ELSE Ok(sort_and_dedup(r.val))))

----------------------------------------------------------------------------
(* lib.rs: Parser::read_header *)

TableDump_subtype(subtype) ==
    CASE subtype = 1 -> "AfiIpv4"
      [] subtype = 2 -> "AfiIpv6"
      [] OTHER -> "Unknown(" \o ToString(subtype) \o ")"

TableDumpV2_subtype(subtype) ==
    CASE subtype = 1 -> "PeerIndex"
      [] subtype = 2 -> "RibIpv4Unicast"
      [] subtype = 4 -> "RibIpv6Unicast"
      [] OTHER -> "Unknown(" \o ToString(subtype) \o ")"

MrtType(typ, subtype) ==
    CASE typ = 12 -> "TableDump(" \o TableDump_subtype(subtype) \o ")"
      [] typ = 13 -> "TableDumpV2(" \o TableDumpV2_subtype(subtype) \o ")"
      [] OTHER -> "Unknown(" \o ToString(typ) \o ")"

MrtHeader(timestamp, typ, length) == [timestamp |-> timestamp, typ |-> typ, length |-> length]
NoHeader == MrtHeader(0, "", 0)

Done(v, p) == [tag |-> "Ok", v |-> v, p |-> p, err |-> ""]
Failed(p) == [tag |-> "Err", v |-> <<>>, p |-> p, err |-> "UnexpectedEof"]
Invalid(p, e) == [tag |-> "Err", v |-> <<>>, p |-> p, err |-> e]
Panicked(p, m) == [tag |-> "Panic", v |-> <<>>, p |-> p, err |-> m]

read_header(buf, p) ==
    LET timestamp == read_u32(buf, p)
        typ == read_u16(buf, timestamp.p)
        subtype == read_u16(buf, typ.p)
        length == read_u32(buf, subtype.p)
    IN  IF ~timestamp.ok \/ ~typ.ok \/ ~subtype.ok \/ ~length.ok
        THEN Failed(p)
        ELSE Done(<<MrtHeader(timestamp.v, MrtType(typ.v, subtype.v), length.v)>>, length.p)

----------------------------------------------------------------------------
(* lib.rs: read_ip_addr, the ip_network constructors, from_utf8 *)

u32_octets(v) ==
    <<(v \div 16777216) % 256, (v \div 65536) % 256, (v \div 256) % 256, v % 256>>

read_ip_addr(buf, p, is_ipv6) ==
    IF is_ipv6
    THEN read_exact(buf, p, 16)
    ELSE LET r == read_u32(buf, p)
         IN  [ok |-> r.ok, v |-> IF r.ok THEN u32_octets(r.v) ELSE <<>>, p |-> r.p]

\* IpNetwork::from(..).unwrap() panics when the library rejects the network;
\* it rejects every netmask longer than the address
network_rejected(ip, netmask) == netmask > 8 * Len(ip)

\* str::from_utf8 accepts exactly the well-formed UTF-8 byte sequences
RECURSIVE utf8_valid(_)
utf8_valid(b) ==
    LET cont(k) == k <= Len(b) /\ b[k] \in 128..191
        rest(n) == utf8_valid(SubSeq(b, n + 1, Len(b)))
    IN  IF b = <<>> THEN TRUE
        ELSE CASE b[1] \in 0..127 -> rest(1)
               [] b[1] \in 194..223 -> cont(2) /\ rest(2)
               [] b[1] = 224 -> Len(b) >= 2 /\ b[2] \in 160..191 /\ cont(3) /\ rest(3)
               [] b[1] \in (225..236) \cup {238, 239} -> cont(2) /\ cont(3) /\ rest(3)
               [] b[1] = 237 -> Len(b) >= 2 /\ b[2] \in 128..159 /\ cont(3) /\ rest(3)
               [] b[1] = 240 -> Len(b) >= 2 /\ b[2] \in 144..191 /\ cont(3) /\ cont(4) /\ rest(4)
               [] b[1] \in 241..243 -> cont(2) /\ cont(3) /\ cont(4) /\ rest(4)
               [] b[1] = 244 -> Len(b) >= 2 /\ b[2] \in 128..143 /\ cont(3) /\ cont(4) /\ rest(4)
               [] OTHER -> FALSE

----------------------------------------------------------------------------
(* lib.rs: Afi::parse *)

Afi_can_parse(typ) == typ = "TableDump(AfiIpv4)" \/ typ = "TableDump(AfiIpv6)"

Afi_parse(buf, p, hdr, dbg) ==
    LET is_ipv6 == hdr.typ = "TableDump(AfiIpv6)"
        view_number == read_u16(buf, p)
        sequence_number == read_u16(buf, view_number.p)
        prefix_ip == read_ip_addr(buf, sequence_number.p, is_ipv6)
        prefix_length == read_u8(buf, prefix_ip.p)
        status == read_u8(buf, prefix_length.p)
        originated_time == read_u32(buf, status.p)
        peer_ip == read_ip_addr(buf, originated_time.p, is_ipv6)
        peer_as == read_u16(buf, peer_ip.p)
        attribute_length == read_u16(buf, peer_as.p)
        d == read_exact(buf, attribute_length.p, attribute_length.v)
    IN  IF ~Afi_can_parse(hdr.typ)
        THEN Panicked(p, "Only AFI_IPv4 and AFI_IPv6 subtypes of TableDump are supported")
        ELSE IF ~view_number.ok \/ ~sequence_number.ok \/ ~prefix_ip.ok \/ ~prefix_length.ok
        THEN Failed(p)
        ELSE IF network_rejected(prefix_ip.v, prefix_length.v)
        THEN Panicked(prefix_length.p, "called Result::unwrap() on an Err value")
        ELSE IF ~status.ok \/ ~originated_time.ok \/ ~peer_ip.ok \/ ~peer_as.ok
                \/ ~attribute_length.ok \/ ~d.ok
        THEN Failed(p)
        ELSE Done(<<[kind |-> "Afi",
                     view_number |-> view_number.v,
                     sequence_number |-> sequence_number.v,
                     prefix |-> [ip |-> prefix_ip.v, netmask |-> prefix_length.v],
                     status |-> status.v,
                     originated_time |-> originated_time.v,
                     peer_ip |-> peer_ip.v,
                     peer_as |-> peer_as.v,
                     data |-> d.v]>>, d.p)

----------------------------------------------------------------------------
(* lib.rs: PeerEntry::parse and PeerIndexTable::parse *)

PeerEntry_parse(buf, p) ==
    LET type_ == read_u8(buf, p)
        is_ipv6 == type_.v % 2 = 1
        is_asn_32 == (type_.v \div 2) % 2 = 1
        peer_bgp_id == read_u32(buf, type_.p)
        ip_addr == read_ip_addr(buf, peer_bgp_id.p, is_ipv6)
        a == IF is_asn_32 THEN read_u32(buf, ip_addr.p) ELSE read_u16(buf, ip_addr.p)
    IN  IF ~type_.ok \/ ~peer_bgp_id.ok \/ ~ip_addr.ok \/ ~a.ok
        THEN Failed(p)
        ELSE Done(<<[peer_bgp_id |-> peer_bgp_id.v, ip_addr |-> ip_addr.v, asn |-> a.v]>>, a.p)

RECURSIVE peer_entries_loop(_, _, _, _)
peer_entries_loop(buf, p, count, peer_entries) ==
    IF count = 0
    THEN Done(peer_entries, p)
    ELSE Let(PeerEntry_parse(buf, p), LAMBDA r :
             IF r.tag # "Ok" THEN r
             ELSE peer_entries_loop(buf, r.p, count - 1, peer_entries \o r.v))

PeerIndexTable_can_parse(typ) == typ = "TableDumpV2(PeerIndex)"

PeerIndexTable_parse(buf, p, hdr, dbg) ==
    LET collector_bgp_id == read_u32(buf, p)
        view_name_length == read_u16(buf, collector_bgp_id.p)
        view_name_buffer == read_exact(buf, view_name_length.p, view_name_length.v)
        peer_count == read_u16(buf, view_name_buffer.p)
        peer_entries == peer_entries_loop(buf, peer_count.p, peer_count.v, <<>>)
    IN  IF ~collector_bgp_id.ok \/ ~view_name_length.ok \/ ~view_name_buffer.ok
        THEN Failed(p)
        ELSE IF ~utf8_valid(view_name_buffer.v)
        THEN Invalid(view_name_buffer.p, "PeerIndexTable view name did not contain valid UTF-8")
        ELSE IF ~peer_count.ok
        THEN Failed(p)
        ELSE IF peer_entries.tag # "Ok"
        THEN peer_entries
        ELSE Done(<<[kind |-> "PeerIndexTable",
                     collector_bgp_id |-> collector_bgp_id.v,
                     view_name |-> view_name_buffer.v,
                     peer_entries |-> peer_entries.v]>>, peer_entries.p)

----------------------------------------------------------------------------
(* lib.rs: RibSubEntry::parse and RibEntry::parse *)

RibSubEntry_parse(buf, p) ==
    LET peer_index == read_u16(buf, p)
        originated_time == read_u32(buf, peer_index.p)
        attribute_length == read_u16(buf, originated_time.p)
        d == read_exact(buf, attribute_length.p, attribute_length.v)
    IN  IF ~peer_index.ok \/ ~originated_time.ok \/ ~attribute_length.ok \/ ~d.ok
        THEN Failed(p)
        ELSE Done(<<[peer_index |-> peer_index.v,
                     originated_time |-> originated_time.v,
                     data |-> d.v]>>, d.p)

RECURSIVE rib_sub_entries_loop(_, _, _, _)
rib_sub_entries_loop(buf, p, count, sub_entries) ==
    IF count = 0
    THEN Done(sub_entries, p)
    ELSE Let(RibSubEntry_parse(buf, p), LAMBDA r :
             IF r.tag # "Ok" THEN r
             ELSE rib_sub_entries_loop(buf, r.p, count - 1, sub_entries \o r.v))

RibEntry_can_parse(typ) ==
    typ = "TableDumpV2(RibIpv4Unicast)" \/ typ = "TableDumpV2(RibIpv6Unicast)"

\* parts[..prefix_bytes].copy_from_slice(prefix_buffer): the buffer at the
\* front of a zeroed array of the address width
copy_into_parts(width, prefix_buffer) ==
    [k \in 1..width |-> IF k <= Len(prefix_buffer) THEN prefix_buffer[k] ELSE 0]

RibEntry_parse(buf, p, hdr, dbg) ==
    LET sequence_number == read_u32(buf, p)
        prefix_length == read_u8(buf, sequence_number.p)
        \* ((prefix_length + 7) / 8) in u8 arithmetic
        overflow == prefix_length.v + 7 > 255
        prefix_bytes == ((prefix_length.v + 7) % 256) \div 8
        prefix_buffer == read_exact(buf, prefix_length.p, prefix_bytes)
        width == IF hdr.typ = "TableDumpV2(RibIpv4Unicast)" THEN 4 ELSE 16
        ip == copy_into_parts(width, prefix_buffer.v)
        entry_count == read_u16(buf, prefix_buffer.p)
        sub_entries == rib_sub_entries_loop(buf, entry_count.p, entry_count.v, <<>>)
    IN  IF ~sequence_number.ok \/ ~prefix_length.ok
        THEN Failed(p)
        ELSE IF dbg /\ overflow
        THEN Panicked(prefix_length.p, "attempt to add with overflow")
        ELSE IF ~prefix_buffer.ok
        THEN Failed(p)
        ELSE IF ~RibEntry_can_parse(hdr.typ)
        THEN Panicked(prefix_buffer.p, "This parser cannot parse this type")
        ELSE IF dbg /\ prefix_length.v > 8 * width
        THEN Panicked(prefix_buffer.p, "assertion failed: prefix_length <= 8 * width")
        ELSE IF prefix_bytes > width
        THEN Panicked(prefix_buffer.p, "range end index out of range for slice")
        ELSE IF network_rejected(ip, prefix_length.v)
        THEN Panicked(prefix_buffer.p, "called Result::unwrap() on an Err value")
        ELSE IF ~entry_count.ok
        THEN Failed(p)
        ELSE IF sub_entries.tag # "Ok"
        THEN sub_entries
        ELSE Done(<<[kind |-> "RibEntry",
                     sequence_number |-> sequence_number.v,
                     prefix |-> [ip |-> ip, netmask |-> prefix_length.v],
                     sub_entries |-> sub_entries.v]>>, sub_entries.p)

----------------------------------------------------------------------------
(* lib.rs: Parser::skip_message and Parser::read_message *)

skip_message(buf, p, hdr) ==
    LET r == read_exact(buf, p, hdr.length)
    IN  IF ~r.ok THEN Failed(p) ELSE Done(<<>>, r.p)

can_parse(M, typ) ==
    CASE M = "Afi" -> Afi_can_parse(typ)
      [] M = "PeerIndexTable" -> PeerIndexTable_can_parse(typ)
      [] M = "RibEntry" -> RibEntry_can_parse(typ)

read_message(M, buf, p, hdr, dbg) ==
    IF ~can_parse(M, hdr.typ)
    THEN Panicked(p, "This parser cannot parse " \o hdr.typ)
    ELSE CASE M = "Afi" -> Afi_parse(buf, p, hdr, dbg)
           [] M = "PeerIndexTable" -> PeerIndexTable_parse(buf, p, hdr, dbg)
           [] M = "RibEntry" -> RibEntry_parse(buf, p, hdr, dbg)

----------------------------------------------------------------------------
(* Inputs: wire encodings, the inverse of what PathSegment::parse reads *)

SeqsUpTo(S, n) == UNION {[1..k -> S] : k \in 0..n}

encode_asn(v, is32) ==
    IF is32
    THEN <<(v \div 16777216) % 256, (v \div 65536) % 256, (v \div 256) % 256, v % 256>>
    ELSE <<(v \div 256) % 256, v % 256>>

RECURSIVE encode_values(_, _)
encode_values(values, is32) ==
    IF values = <<>> THEN <<>>
    ELSE encode_asn(Head(values), is32) \o encode_values(Tail(values), is32)

encode_segment(seg, is32) ==
    <<seg.typ_byte, Len(seg.values)>> \o encode_values(seg.values, is32)

RECURSIVE encode_path(_, _)
encode_path(segs, is32) ==
    IF segs = <<>> THEN <<>>
    ELSE encode_segment(Head(segs), is32) \o encode_path(Tail(segs), is32)

\* segment type bytes: AsSet, AsSequence, AsConfedSequence, Unknown(7)
SegmentTypeBytes == {1, 2, 3, 7}
\* a public ASN and a private one
AsnValues == {701, 65000}

SegmentInputs ==
    {[typ_byte |-> t, values |-> vs] : t \in SegmentTypeBytes, vs \in SeqsUpTo(AsnValues, MaxValues)}

\* the AS-PATHs of the extraction scenarios
ScenarioPaths ==
    { <<[typ_byte |-> 2, values |-> <<65000, 701, 64500>>]>>,
      <<[typ_byte |-> 2, values |-> <<64496, 131071, 999999>>]>>,
      <<[typ_byte |-> 2, values |-> <<65000>>], [typ_byte |-> 1, values |-> <<701, 64497, 702>>]>>,
      <<[typ_byte |-> 3, values |-> <<701>>]>>,
      <<[typ_byte |-> 2, values |-> <<3356, 701, 702, 65000>>]>>,
      <<[typ_byte |-> 2, values |-> <<701>>], [typ_byte |-> 1, values |-> <<702>>],
        [typ_byte |-> 2, values |-> <<65000, 0>>]>>,
      <<[typ_byte |-> 1, values |-> <<701>>], [typ_byte |-> 4, values |-> <<702>>],
        [typ_byte |-> 2, values |-> <<64496>>]>> }

PathInputs == SeqsUpTo(SegmentInputs, MaxSegments) \cup ScenarioPaths

\* AS-PATHs of one AsSequence segment over ASNs at and between the thresholds
SequenceAsns == {701, 64496, 131071, 999999}
SequenceInputs ==
    { <<[typ_byte |-> 2, values |-> vs]>> : vs \in SeqsUpTo(SequenceAsns, MaxSequenceLen) }

AsnInputs ==
    (0..AsnSpread)
    \cup ((64496 - AsnSpread)..(64496 + AsnSpread))
    \cup ((131071 - AsnSpread)..(131071 + AsnSpread))
    \cup ((1000000 - AsnSpread)..(1000000 + AsnSpread))
    \cup {701, 65000}

RawBytes == {0, 1, 2}
RawInputs == SeqsUpTo(RawBytes, MaxRawLen)

AttrBytes == {0, 1, 2, 16}
AttrInputs == SeqsUpTo(AttrBytes, MaxAttrLen)

\* AS-PATHs carried by the enumerated records
RecordPaths ==
    { <<>>,
      <<[typ_byte |-> 2, values |-> <<701>>]>>,
      <<[typ_byte |-> 2, values |-> <<702>>]>>,
      <<[typ_byte |-> 2, values |-> <<65000>>]>>,
      <<[typ_byte |-> 2, values |-> <<3356>>], [typ_byte |-> 1, values |-> <<702, 701>>]>>,
      <<[typ_byte |-> 2, values |-> <<701>>], [typ_byte |-> 3, values |-> <<702>>]>> }

\* attribute TLVs: flags, type, length (one byte, or two with flag bit 4), data
encode_attribute(flags, type_id, d) ==
    IF (flags \div 16) % 2 = 1
    THEN <<flags, type_id, Len(d) \div 256, Len(d) % 256>> \o d
    ELSE <<flags, type_id, Len(d)>> \o d

AttributeInputs(is32) ==
    { encode_attribute(64, 1, <<0>>),          \* ORIGIN = Igp
      encode_attribute(64, 1, <<>>),           \* ORIGIN with no data
      encode_attribute(192, 5, <<0, 0>>),      \* an attribute of another type
      <<64, 2, 4, 2>> }                        \* AS_PATH cut short
    \cup { encode_attribute(64, 2, encode_path(path, is32)) : path \in RecordPaths }
    \cup { encode_attribute(80, 2, encode_path(<<[typ_byte |-> 2, values |-> <<702>>]>>, is32)) }

RECURSIVE flatten(_)
flatten(seqs) == IF seqs = <<>> THEN <<>> ELSE Head(seqs) \o flatten(Tail(seqs))

BlobInputs(is32) == { flatten(as) : as \in SeqsUpTo(AttributeInputs(is32), MaxAttrs) }

RibEntryInputs ==
    { [kind |-> "RibEntry", sub_entries |-> subs, data |-> <<>>] :
        subs \in SeqsUpTo({ [data |-> b] : b \in BlobInputs(TRUE) }, MaxSubEntries) }

AfiInputs ==
    { [kind |-> "Afi", sub_entries |-> <<>>, data |-> b] : b \in BlobInputs(FALSE) }

NoRecord == [kind |-> "None", sub_entries |-> <<>>, data |-> <<>>]

\* MRT records: a 12-byte header, the payload, and what follows it up to
\* the declared length
u16_octets(v) == <<(v \div 256) % 256, v % 256>>
fill(n, b) == [k \in 1..n |-> b]

encode_header(typ, subtype, length) ==
    <<0, 0, 0, 0>> \o u16_octets(typ) \o u16_octets(subtype) \o u32_octets(length)

\* slack is how much longer the declared length is than the payload
encode_record(typ, subtype, payload, slack) ==
    encode_header(typ, subtype, Len(payload) + slack) \o payload
        \o fill(IF slack > 0 THEN slack ELSE 0, 0)

sub_entry_bytes(d) == <<0, 0>> \o <<0, 0, 0, 0>> \o u16_octets(Len(d)) \o d

\* a prefix of netmask L as a writer emits it: ceil(L/8) bytes
rib_payload(L, subs) ==
    <<0, 0, 0, 1, L>> \o fill((L + 7) \div 8, 64) \o u16_octets(Len(subs)) \o flatten(subs)

peer_entry_bytes(type_) ==
    <<type_>> \o <<10, 0, 0, 1>>
        \o fill(IF type_ % 2 = 1 THEN 16 ELSE 4, 32)
        \o (IF (type_ \div 2) % 2 = 1 THEN <<0, 0, 2, 189>> ELSE <<2, 189>>)

peer_index_payload(view, peers) ==
    <<0, 0, 0, 9>> \o u16_octets(Len(view)) \o view \o u16_octets(Len(peers)) \o flatten(peers)

afi_payload(is_ipv6, L, d) ==
    <<0, 0, 0, 1>> \o fill(IF is_ipv6 THEN 16 ELSE 4, 0) \o <<L, 1>> \o <<0, 0, 0, 0>>
        \o fill(IF is_ipv6 THEN 16 ELSE 4, 32) \o <<2, 189>> \o u16_octets(Len(d)) \o d

RibV4Lengths == {0, 20, 32, 33, 249}
RibV6Lengths == {128, 129, 255}
Slack == {-1, 0, 1}

RecordInputs ==
    { encode_record(13, 2, rib_payload(L, subs), k) :
        L \in RibV4Lengths, subs \in {<<>>, <<sub_entry_bytes(<<64, 1, 1, 0>>)>>}, k \in Slack }
    \cup { encode_record(13, 4, rib_payload(L, <<>>), 0) : L \in RibV6Lengths }
    \cup { encode_record(13, 1, peer_index_payload(view, peers), 0) :
             view \in {<<>>, <<65>>, <<255>>},
             peers \in {<<>>, <<peer_entry_bytes(0)>>, <<peer_entry_bytes(3)>>} }
    \cup { encode_record(12, 1, afi_payload(FALSE, L, <<>>), 0) : L \in {24, 33} }
    \cup { encode_record(12, 2, afi_payload(TRUE, 64, <<64, 1, 1, 0>>), 0) }
    \cup { encode_record(99, 0, <<1, 2>>, 0), encode_record(13, 7, <<1>>, 0) }
    \cup { <<0, 0, 0, 0, 0, 13>> }

StreamInputs == { flatten(rs) : rs \in SeqsUpTo(RecordInputs, MaxRecords) }

NoMessage == [tag |-> "NotCalled", v |-> <<>>, p |-> 0, err |-> ""]

ParserIdle ==
    /\ reader = <<>>
    /\ position = 0
    /\ header = NoHeader
    /\ payload_start = 0
    /\ decoder = ""
    /\ message = NoMessage

NoSegments == [w \in BOOLEAN |-> NotCalled]

----------------------------------------------------------------------------
(* SpecBogus: is_asn_bogus applied to one ASN *)

InitBogus ==
    /\ debug_assertions \in BOOLEAN
    /\ pc = "call"
    /\ asn \in AsnInputs
    /\ bogus = FALSE
    /\ data = <<>>
    /\ is_asn_32bit = FALSE
    /\ segments = NoSegments
    /\ origin = NotCalled
    /\ attributes = NotCalled
    /\ record = NoRecord
    /\ origins = NotCalled
    /\ ParserIdle

IsAsnBogus ==
    /\ pc = "call"
    /\ bogus' = is_asn_bogus(asn)
    /\ pc' = "done"
    /\ UNCHANGED <<debug_assertions, asn, data, is_asn_32bit, segments, origin,
                   attributes, record, origins>>
    /\ UNCHANGED parser_vars

NextBogus == IsAsnBogus

SpecBogus == InitBogus /\ [][NextBogus]_vars

----------------------------------------------------------------------------
(* SpecSegments: one raw AS-PATH buffer decoded with both widths *)

InitSegments ==
    /\ debug_assertions \in BOOLEAN
    /\ pc = "call"
    /\ asn = 0
    /\ bogus = FALSE
    /\ data \in RawInputs
    /\ is_asn_32bit = FALSE
    /\ segments = NoSegments
    /\ origin = NotCalled
    /\ attributes = NotCalled
    /\ record = NoRecord
    /\ origins = NotCalled
    /\ ParserIdle

GetPathSegments(w) ==
    /\ segments[w].tag = "NotCalled"
    /\ segments' = [segments EXCEPT ![w] = get_path_segments(data, w)]
    /\ is_asn_32bit' = w
    /\ pc' = IF segments[~w].tag = "NotCalled" THEN "call" ELSE "done"
    /\ UNCHANGED <<debug_assertions, asn, bogus, data, origin, attributes, record, origins>>
    /\ UNCHANGED parser_vars

NextSegments == \E w \in BOOLEAN : GetPathSegments(w)

SpecSegments == InitSegments /\ [][NextSegments]_vars

----------------------------------------------------------------------------
(* SpecOrigin: the origin scan applied to one encoded AS-PATH *)

InitOrigin ==
    /\ debug_assertions \in BOOLEAN
    /\ pc = "call"
    /\ asn = 0
    /\ bogus = FALSE
    /\ is_asn_32bit \in BOOLEAN
    /\ \E path \in PathInputs : data = encode_path(path, is_asn_32bit)
    /\ segments = NoSegments
    /\ origin = NotCalled
    /\ attributes = NotCalled
    /\ record = NoRecord
    /\ origins = NotCalled
    /\ ParserIdle

GetOriginAsFromBgpAttributeAsPath ==
    /\ pc = "call"
    /\ origin' = get_origin_as_from_bgp_attribute_as_path(data, is_asn_32bit, debug_assertions)
    /\ pc' = "done"
    /\ UNCHANGED <<debug_assertions, asn, bogus, data, is_asn_32bit, segments,
                   attributes, record, origins>>
    /\ UNCHANGED parser_vars

NextOrigin == GetOriginAsFromBgpAttributeAsPath

SpecOrigin == InitOrigin /\ [][NextOrigin]_vars

----------------------------------------------------------------------------
(* SpecSequence: the origin scan applied to an AS-PATH of one AsSequence *)

InitSequence ==
    /\ debug_assertions \in BOOLEAN
    /\ pc = "call"
    /\ asn = 0
    /\ bogus = FALSE
    /\ is_asn_32bit \in BOOLEAN
    /\ \E path \in SequenceInputs : data = encode_path(path, is_asn_32bit)
    /\ segments = NoSegments
    /\ origin = NotCalled
    /\ attributes = NotCalled
    /\ record = NoRecord
    /\ origins = NotCalled
    /\ ParserIdle

SpecSequence == InitSequence /\ [][NextOrigin]_vars

----------------------------------------------------------------------------
(* SpecAttrs: Attribute::parse_all applied to one raw buffer *)

InitAttrs ==
    /\ debug_assertions \in BOOLEAN
    /\ pc = "call"
    /\ asn = 0
    /\ bogus = FALSE
    /\ data \in AttrInputs
    /\ is_asn_32bit = FALSE
    /\ segments = NoSegments
    /\ origin = NotCalled
    /\ attributes = NotCalled
    /\ record = NoRecord
    /\ origins = NotCalled
    /\ ParserIdle

ParseAll ==
    /\ pc = "call"
    /\ attributes' = Attribute_parse_all(data)
    /\ pc' = "done"
    /\ UNCHANGED <<debug_assertions, asn, bogus, data, is_asn_32bit, segments, origin,
                   record, origins>>
    /\ UNCHANGED parser_vars

NextAttrs == ParseAll

SpecAttrs == InitAttrs /\ [][NextAttrs]_vars

----------------------------------------------------------------------------
(* SpecRecord: origin extraction from one decoded RibEntry or Afi *)

InitRecord ==
    /\ debug_assertions \in BOOLEAN
    /\ pc = "call"
    /\ asn = 0
    /\ bogus = FALSE
    /\ data = <<>>
    /\ is_asn_32bit = FALSE
    /\ segments = NoSegments
    /\ origin = NotCalled
    /\ attributes = NotCalled
    /\ record \in RibEntryInputs \cup AfiInputs
    /\ origins = NotCalled
    /\ ParserIdle

GetOriginAsFromRibEntry ==
    /\ pc = "call"
    /\ record.kind = "RibEntry"
    /\ origins' = get_origin_as_from_rib_entry(record, debug_assertions)
    /\ pc' = "done"
    /\ UNCHANGED <<debug_assertions, asn, bogus, data, is_asn_32bit, segments, origin,
                   attributes, record>>
    /\ UNCHANGED parser_vars

GetOriginAsFromAfi ==
    /\ pc = "call"
    /\ record.kind = "Afi"
    /\ origins' = get_origin_as_from_afi(record, debug_assertions)
    /\ pc' = "done"
    /\ UNCHANGED <<debug_assertions, asn, bogus, data, is_asn_32bit, segments, origin,
                   attributes, record>>
    /\ UNCHANGED parser_vars

NextRecord == GetOriginAsFromRibEntry \/ GetOriginAsFromAfi

SpecRecord == InitRecord /\ [][NextRecord]_vars

----------------------------------------------------------------------------
(* SpecParser: a Parser reading a stream of MRT records *)

MessageTypes == {"Afi", "PeerIndexTable", "RibEntry"}

InitParser ==
    /\ debug_assertions \in BOOLEAN
    /\ pc = "header"
    /\ asn = 0
    /\ bogus = FALSE
    /\ data = <<>>
    /\ is_asn_32bit = FALSE
    /\ segments = NoSegments
    /\ origin = NotCalled
    /\ attributes = NotCalled
    /\ record = NoRecord
    /\ origins = NotCalled
    /\ reader \in StreamInputs
    /\ position = 0
    /\ header = NoHeader
    /\ payload_start = 0
    /\ decoder = ""
    /\ message = NoMessage

\* where a call leaves the caller: at the next header after Ok, stopped after
\* an error, unwound after a panic
After(r, next) ==
    CASE r.tag = "Ok" -> next
      [] r.tag = "Err" -> "failed"
      [] OTHER -> "panicked"

ReadHeader ==
    /\ pc = "header"
    /\ LET r == read_header(reader, position)
       IN  /\ pc' = After(r, "payload")
           /\ position' = r.p
           /\ payload_start' = r.p
           /\ header' = IF r.tag = "Ok" THEN r.v[1] ELSE NoHeader
    /\ decoder' = ""
    /\ message' = NoMessage
    /\ UNCHANGED <<debug_assertions, reader>>
    /\ UNCHANGED pure_vars

SkipMessage ==
    /\ pc = "payload"
    /\ LET r == skip_message(reader, position, header)
       IN  /\ pc' = After(r, "header")
           /\ position' = r.p
           /\ message' = r
    /\ decoder' = "skip"
    /\ UNCHANGED <<debug_assertions, reader, header, payload_start>>
    /\ UNCHANGED pure_vars

ReadMessage(M) ==
    /\ pc = "payload"
    /\ LET r == read_message(M, reader, position, header, debug_assertions)
       IN  /\ pc' = After(r, "header")
           /\ position' = r.p
           /\ message' = r
    /\ decoder' = M
    /\ UNCHANGED <<debug_assertions, reader, header, payload_start>>
    /\ UNCHANGED pure_vars

NextParser ==
    \/ ReadHeader
    \/ SkipMessage
    \/ \E M \in MessageTypes : ReadMessage(M)

SpecParser == InitParser /\ [][NextParser]_vars

----------------------------------------------------------------------------
(* Vocabulary of the properties, stated independently of the scan *)

\* an ASN is bogus when it is 0, lies in [64496, 131071] or exceeds 1,000,000
Bogus(a) == a = 0 \/ a \in 64496..131071 \/ a > 1000000

\* an AsSequence segment whose ASNs are all bogus: the scan passes over it
PassedOver(seg) ==
    /\ seg.typ = "AsSequence"
    /\ \A j \in 1..Len(seg.values) : Bogus(seg.values[j])

\* every segment to the right of segment i is passed over
ScanArrivesAt(segs, i) == \A k \in (i + 1)..Len(segs) : PassedOver(segs[k])

\* the rightmost non-bogus ASN of a list that has one
RightmostNonBogus(values) ==
    values[CHOOSE j \in 1..Len(values) :
              /\ ~Bogus(values[j])
              /\ \A k \in (j + 1)..Len(values) : Bogus(values[k])]

\* the segments the origin call of SpecOrigin decodes
Decoded == get_path_segments(data, is_asn_32bit)

----------------------------------------------------------------------------
(* Properties of the origin scan (SpecOrigin, SpecSequence) *)

\* C1: scanning from the last segment, the first AsSequence segment holding a
\* non-bogus ASN (only passed-over AsSequence segments to its right) makes the
\* call return Ok with exactly its rightmost non-bogus ASN, whatever lies to
\* its left; when every segment is passed over, a path with zero segments
\* included, the call returns the "No origin" error.
C1_SequenceOrigin ==
    (pc = "done" /\ Decoded.tag = "Ok") =>
        LET segs == Decoded.val
        IN  /\ \A i \in 1..Len(segs) :
                 ( /\ ScanArrivesAt(segs, i)
                   /\ segs[i].typ = "AsSequence"
                   /\ \E j \in 1..Len(segs[i].values) : ~Bogus(segs[i].values[j]) )
                 => origin = Ok(<<RightmostNonBogus(segs[i].values)>>)
            /\ (\A k \in 1..Len(segs) : PassedOver(segs[k])) => origin = Err("No origin")

\* C2: when the scan arrives at an AsSet segment, the call returns Ok with
\* exactly the non-bogus ASNs of the set in wire order (possibly none), and
\* nothing to the left of the set, value or kind, changes that.
C2_SetOrigin ==
    (pc = "done" /\ Decoded.tag = "Ok") =>
        LET segs == Decoded.val
        IN  \A i \in 1..Len(segs) :
               (ScanArrivesAt(segs, i) /\ segs[i].typ = "AsSet")
               => origin = Ok(SelectSeq(segs[i].values, LAMBDA a : ~Bogus(a)))

\* C3: when the scan arrives at an AsConfedSequence, AsConfedSet or Unknown(n)
\* segment, the call returns the "Invalid/Legacy BGP Path Segment" error
\* naming that kind, with no ASN, and that error is not the "No origin" one.
C3_InvalidSegment ==
    (pc = "done" /\ Decoded.tag = "Ok") =>
        LET segs == Decoded.val
        IN  \A i \in 1..Len(segs) :
               (ScanArrivesAt(segs, i) /\ segs[i].typ \notin {"AsSequence", "AsSet"})
               => /\ origin.tag = "Err"
                  /\ origin.err = "Invalid/Legacy BGP Path Segment: " \o segs[i].typ
                  /\ origin.err # "No origin"
                  /\ origin.val = <<>>

\* the path of the second extraction scenario, as decoded
AllBogusScenario == <<[typ |-> "AsSequence", values |-> <<64496, 131071, 999999>>]>>

\* C8 (as stated): the single AsSequence segment [64496, 131071, 999999]
\* yields the "No origin" error.
C8_NoOriginScenario ==
    (pc = "done" /\ Decoded = Ok(AllBogusScenario)) => origin = Err("No origin")

\* C8 (amended): the single AsSequence segment [64496, 131071, 999999] yields
\* Ok with the one ASN 999999, which does not exceed 1,000,000 and is the
\* first value the scan from the right meets.
C8_ScenarioOrigin ==
    (pc = "done" /\ Decoded = Ok(AllBogusScenario)) => origin = Ok(<<999999>>)

C8_Witness ==
    /\ pc = "done"
    /\ Decoded = Ok(AllBogusScenario)
    /\ origin.tag = "Ok"

----------------------------------------------------------------------------
(* Properties of is_asn_bogus (SpecBogus) *)

\* C7 (as stated): 0, 64496, 131070 and 1,000,001 are bogus, 65000 is not.
C7_BogusClassesAsStated ==
    pc = "done" =>
        /\ asn \in {0, 64496, 131070, 1000001} => bogus = TRUE
        /\ asn = 65000 => bogus = FALSE

\* C7 (amended): 0, 64496, 131070, 1,000,001 and 65000 are all bogus.
C7_BogusClasses ==
    pc = "done" =>
        (asn \in {0, 64496, 131070, 1000001, 65000} => bogus = TRUE)

C7_Witness ==
    /\ pc = "done"
    /\ asn = 65000
    /\ bogus = TRUE

----------------------------------------------------------------------------
(* Properties of get_path_segments (SpecSegments) *)

SameShape(a, b) ==
    /\ Len(a) = Len(b)
    /\ \A i \in 1..Len(a) :
          /\ a[i].typ = b[i].typ
          /\ Len(a[i].values) = Len(b[i].values)

ValuesFit16(segs) ==
    \A i \in 1..Len(segs) : \A j \in 1..Len(segs[i].values) : segs[i].values[j] \in 0..65535

\* C9 (as stated): the 16-bit decoding yields values in [0, 65535], and the
\* 16-bit and 32-bit decodings of the same bytes have the same number of
\* segments, each with the same kind and ASN count.
C9_WidthOnlyChangesValues ==
    /\ segments[FALSE].tag = "Ok" => ValuesFit16(segments[FALSE].val)
    /\ (segments[FALSE].tag = "Ok" /\ segments[TRUE].tag = "Ok")
          => SameShape(segments[FALSE].val, segments[TRUE].val)

\* C9 (amended): the 16-bit decoding yields values in [0, 65535], and when
\* both decodings of a non-empty buffer succeed their first segments have
\* the same kind and ASN count.
C9_WidthContract ==
    /\ segments[FALSE].tag = "Ok" => ValuesFit16(segments[FALSE].val)
    /\ (segments[FALSE].tag = "Ok" /\ segments[TRUE].tag = "Ok" /\ Len(data) > 0)
          => /\ Len(segments[FALSE].val) >= 1
             /\ Len(segments[TRUE].val) >= 1
             /\ SameShape(<<segments[FALSE].val[1]>>, <<segments[TRUE].val[1]>>)

C9_Witness ==
    /\ segments[FALSE].tag = "Ok"
    /\ segments[TRUE].tag = "Ok"
    /\ Len(segments[TRUE].val) >= 1
    /\ Len(segments[TRUE].val[1].values) >= 1
    /\ Len(segments[FALSE].val) > Len(segments[TRUE].val)

----------------------------------------------------------------------------
(* Properties of Attribute::parse_all (SpecAttrs) *)

\* C10: for every buffer parse_all ends in Ok with the attributes, or in a
\* returned error with no partial list; it never aborts, a type-1 attribute
\* with declared length 0 included, and every attribute takes at least its
\* 3-byte header from the buffer.
C10_ParseAllReturns ==
    pc = "done" =>
        /\ attributes.tag \in {"Ok", "Err"}
        /\ attributes.tag = "Err" => attributes.val = <<>>
        /\ attributes.tag = "Ok" => 3 * Len(attributes.val) <= Len(data)

----------------------------------------------------------------------------
(* Properties of the record-level extraction (SpecRecord) *)

\* the attribute blobs of the record, and the ASN width its AS-PATHs are read with
Blobs(r) == IF r.kind = "RibEntry" THEN [i \in 1..Len(r.sub_entries) |-> r.sub_entries[i].data]
            ELSE <<r.data>>
WidthOf(r) == r.kind = "RibEntry"

Range(f) == {f[i] : i \in 1..Len(f)}
StrictlyAscending(f) == \A i \in 1..(Len(f) - 1) : f[i] < f[i + 1]

\* the origin results of the AS-PATH attributes of a blob that decodes
PathOrigins(blob, is32, dbg) ==
    LET a == Attribute_parse_all(blob)
    IN  { get_origin_as_from_bgp_attribute_as_path(a.val[k].data, is32, dbg) :
            k \in {k \in 1..Len(a.val) : a.val[k].kind = "AsPath"} }

SomeFailure(r, dbg) ==
    \E i \in 1..Len(Blobs(r)) :
        \/ Attribute_parse_all(Blobs(r)[i]).tag # "Ok"
        \/ \E o \in PathOrigins(Blobs(r)[i], WidthOf(r), dbg) : o.tag # "Ok"

OriginUnion(r, dbg) ==
    UNION { Range(o.val) :
              o \in UNION { PathOrigins(Blobs(r)[i], WidthOf(r), dbg) : i \in 1..Len(Blobs(r)) } }

\* C4: on success the list is strictly ascending and holds exactly the union
\* of the origins of every AS-PATH attribute of the record; when attribute
\* decoding or origin extraction fails for any AS-PATH, the call returns an
\* error and no list.
C4_SortedUnionOrError ==
    pc = "done" =>
        /\ origins.tag = "Ok" =>
              /\ ~SomeFailure(record, debug_assertions)
              /\ StrictlyAscending(origins.val)
              /\ Range(origins.val) = OriginUnion(record, debug_assertions)
        /\ SomeFailure(record, debug_assertions) =>
              /\ origins.tag = "Err"
              /\ origins.val = <<>>

----------------------------------------------------------------------------
(* Properties of the record reader (SpecParser) *)

\* C5: after read_header returned a header of payload length L and
\* read_message or skip_message then succeeded, the reader has advanced
\* exactly L bytes past the header and stands at the next record's header.
C5_PayloadLengthConsumed ==
    (decoder # "" /\ message.tag = "Ok") => position = payload_start + header.length

\* the prefix-length byte of the RIB payload the last header introduces
WirePrefixLength == reader[payload_start + 5]
CeilDiv8(L) == (L + 7) \div 8
RibWidth == IF header.typ = "TableDumpV2(RibIpv4Unicast)" THEN 4 ELSE 16

\* C6: for every prefix length L in 0..255 and both RIB subtypes,
\* RibEntry::parse takes exactly ceil(L/8) prefix bytes from the wire, puts
\* them at the front of the address and leaves the other address bytes zero;
\* the byte count never overflows and never exceeds the address width.
C6_PrefixPadding ==
    ( /\ decoder = "RibEntry"
      /\ RibEntry_can_parse(header.typ)
      /\ payload_start + 5 + CeilDiv8(WirePrefixLength) + 2 <= Len(reader) )
    => /\ message.tag # "Panic"
       /\ CeilDiv8(WirePrefixLength) <= RibWidth
       /\ message.tag = "Ok" =>
             message.v[1].prefix.ip =
                 [k \in 1..RibWidth |->
                     IF k <= CeilDiv8(WirePrefixLength)
                     THEN reader[payload_start + 5 + k]
                     ELSE 0]

====
